---- MODULE Spec2Model ----
(***************************************************************************)
(* remote-tail-f: a poll loop that follows a remote file over HTTP (Range  *)
(* requests) or SFTP (seek), emits the newly completed lines and keeps the *)
(* byte offset in a checkpoint file.                                       *)
(*                                                                         *)
(* Bytes are one-character strings; a file, a response body, a line and    *)
(* the checkpoint text are sequences of them.                              *)
(***************************************************************************)
EXTENDS Integers, Sequences, FiniteSets, TLC

VARIABLES
    remote,             \* content of the remote file (environment)
    transport,          \* "http" | "sftp": the Tailer CreateTailerFromArgs built
    stateFilePath,      \* TailerBase.stateFilePath: "" (none) or "p"
    ckpt,               \* the checkpoint file: Absent or its text
    lastOffset,         \* TailerBase.lastOffset
    rangeNotSupported,  \* HttpTailer.rangeNotSupported
    client,             \* SftpTailer.client    # nil
    sshClient,          \* SftpTailer.sshClient # nil
    pc,                 \* position of main
    lines,              \* lines returned by FetchNewLines, not yet printed
    err,                \* error returned by FetchNewLines
    stdout,             \* the lines printed since the remote file was last
                        \* truncated (what was printed before is not kept)
    gh                  \* history record of the run (observations only)

vars == <<remote, transport, stateFilePath, ckpt, lastOffset, rangeNotSupported,
          client, sshClient, pc, lines, err, stdout, gh>>

(* ----------------------------- bounds ---------------------------------- *)
MaxFileLen == 4
MaxRestarts == 1
MaxLiveLen == 2
MaxCkptLen == 2
MaxCkptOffset == 120

(* ----------------------------- bytes ----------------------------------- *)
NL == "\n"
None == "none"
\* the checkpoint file does not exist: a text no file can hold
Absent == <<"absent">>
FileBytes == {"a", NL}
Digits == <<"0", "1", "2", "3", "4", "5", "6", "7", "8", "9">>
DigitSet == {Digits[i] : i \in 1..10}
CkptBytes == {"0", "2", "-", "+", " ", NL, "x", "_"}

Drop(s, n) == IF n >= Len(s) THEN <<>> ELSE SubSeq(s, n + 1, Len(s))
Take(s, n) == IF n >= Len(s) THEN s ELSE SubSeq(s, 1, n)

\* all sequences over S of length at most n
RECURSIVE SeqsUpTo(_, _)
SeqsUpTo(S, n) ==
    IF n = 0 THEN {<<>>}
    ELSE LET shorter == SeqsUpTo(S, n - 1)
         IN  shorter \cup {Append(s, c) : s \in {t \in shorter : Len(t) = n - 1}, c \in S}

\* bytes.Index(body, "\n"): 0-based index of the first newline, -1 if none
RECURSIVE IndexFrom(_, _)
IndexFrom(body, i) ==
    IF i > Len(body) THEN -1
    ELSE IF body[i] = NL THEN i - 1
    ELSE IndexFrom(body, i + 1)
BytesIndex(body) == IndexFrom(body, 1)

DigitVal(c) == CHOOSE d \in 0..9 : Digits[d + 1] = c

(* ------------------------- checkpoint store ---------------------------- *)
\* (a faulty variant: only the last digit is written)
LastDigitOnly(n) == <<Digits[(n % 10) + 1]>>

\* fmt.Sprintf("%d", n) for n >= 0
RECURSIVE DecimalDigits(_)
DecimalDigits(n) ==
    IF n < 10 THEN <<Digits[n + 1]>>
    ELSE Append(DecimalDigits(n \div 10), Digits[(n % 10) + 1])

\* fmt.Sprintf("%d\n", t.lastOffset)
FormatOffset(n) ==
    (IF n < 0 THEN <<"-">> \o DecimalDigits(-n) ELSE DecimalDigits(n)) \o <<NL>>

\* strconv.ParseInt(tok, 10, 64) on an optional sign followed by digits
RECURSIVE DigitsValue(_, _)
DigitsValue(ds, acc) ==
    IF ds = <<>> THEN acc
    ELSE DigitsValue(Tail(ds), acc * 10 + DigitVal(Head(ds)))

\* number of leading bytes of s that belong to S
RECURSIVE SpanLen(_, _)
SpanLen(s, S) ==
    IF s = <<>> \/ Head(s) \notin S THEN 0 ELSE 1 + SpanLen(Tail(s), S)

\* fmt.Sscanf(data, "%d", &v): [n, err, v].  The verb skips leading blanks
\* (a newline is not a blank for Sscanf), takes an optional sign and the
\* longest run of "0123456789_", and hands the token to ParseInt in base 10,
\* which refuses an underscore.  Input after the token is not looked at.
Sscanf(data) ==
    LET afterSp == Drop(data, SpanLen(data, {" "}))
        signed  == afterSp # <<>> /\ Head(afterSp) \in {"+", "-"}
        afterSg == IF signed THEN Tail(afterSp) ELSE afterSp
        tok     == Take(afterSg, SpanLen(afterSg, DigitSet \cup {"_"}))
        mag     == DigitsValue(tok, 0)
    IN  IF afterSp = <<>> THEN [n |-> 0, err |-> "unexpected EOF", v |-> 0]
        ELSE IF Head(afterSp) = NL THEN [n |-> 0, err |-> "unexpected newline", v |-> 0]
        ELSE IF afterSg = <<>> THEN [n |-> 0, err |-> "unexpected EOF", v |-> 0]
        ELSE IF tok = <<>> THEN [n |-> 0, err |-> "expected integer", v |-> 0]
        ELSE IF \E i \in 1..Len(tok) : tok[i] = "_"
             THEN [n |-> 0, err |-> "invalid syntax", v |-> 0]
        ELSE [n |-> 1, err |-> None,
              v |-> IF signed /\ Head(afterSp) = "-" THEN -mag ELSE mag]

\* TailerBase.LoadState: [lastOffset, err]; off is the offset held before the
\* call, readFails an os.ReadFile failure other than "does not exist"
LoadState(path, file, off, readFails) ==
    IF path = "" THEN [lastOffset |-> 0, err |-> None]
    ELSE IF file = Absent THEN [lastOffset |-> 0, err |-> None]
    ELSE IF readFails THEN [lastOffset |-> off, err |-> "could not read checkpoint file"]
    ELSE LET sc == Sscanf(file)
         IN  IF sc.err # None THEN [lastOffset |-> off, err |-> sc.err]
             ELSE IF sc.n < 1 THEN [lastOffset |-> off, err |-> "invalid checkpoint file"]
             ELSE IF sc.v < 0 THEN [lastOffset |-> off, err |-> "invalid offset in checkpoint file"]
             ELSE [lastOffset |-> sc.v, err |-> None]

\* TailerBase.SaveState: [file, err].  os.WriteFile opens with O_TRUNC: a
\* failed open leaves the file alone, a failed write leaves it emptied.
SaveState(path, off, file, outcome) ==
    IF path = "" THEN [file |-> file, err |-> None]
    ELSE IF outcome = "open" THEN [file |-> file, err |-> "open failed"]
    ELSE IF outcome = "write" THEN [file |-> <<>>, err |-> "write failed"]
    ELSE [file |-> FormatOffset(off), err |-> None]

(* --------------------------- line splitting ---------------------------- *)
\* (a faulty variant: the newline is not counted into the offset)
AdvanceWithoutNewline(off, nlIndex) == off + nlIndex

\* (a faulty variant: "=" for "+=", the index within the body becomes the offset)
AdvanceWithinBody(off, nlIndex) == nlIndex + 1

\* t.lastOffset += int64(nlIndex + len(nlByte))
Advance(off, nlIndex) == off + nlIndex + 1

\* (a faulty variant: the line keeps its newline)
LineWithNewline(body, nlIndex) == Take(body, nlIndex + 1)

\* string(body[0:nlIndex])
LineOf(body, nlIndex) == Take(body, nlIndex)

\* the loop "for nlIndex != -1" of both FetchNewLines: [lines, lastOffset]
RECURSIVE SplitLoop(_, _, _)
SplitLoop(body, lns, off) ==
    LET nlIndex == BytesIndex(body)
    IN  IF nlIndex = -1 THEN [lines |-> lns, lastOffset |-> off]
        ELSE SplitLoop(Drop(body, nlIndex + 1),
                       Append(lns, LineOf(body, nlIndex)),
                       Advance(off, nlIndex))

(* ------------------------------ HTTP ----------------------------------- *)
StatusOK == 200
StatusPartialContent == 206
StatusRequestedRangeNotSatisfiable == 416
StatusInternalServerError == 500

\* The server at the other end of t.client.Do(req).  The request carries
\* "Range: bytes=<off-1>-" exactly when off > 0.  behaviour "range" honours a
\* Range header, "norange" ignores it, "partial" answers 206 to any request,
\* "broken" answers 500.
HttpServer(file, off, behaviour) ==
    LET first == off - 1
    IN  IF behaviour = "broken"
            THEN [status |-> StatusInternalServerError, body |-> <<>>]
        ELSE IF behaviour = "norange" \/ (behaviour = "range" /\ off = 0)
            THEN [status |-> StatusOK, body |-> file]
        ELSE IF off = 0
            THEN [status |-> StatusPartialContent, body |-> file]
        ELSE IF first >= Len(file)
            THEN [status |-> StatusRequestedRangeNotSatisfiable, body |-> <<>>]
        ELSE [status |-> StatusPartialContent, body |-> Drop(file, first)]

\* (a faulty variant: a 416 leaves the offset alone)
OffsetKeptOn416(off) == off

\* the offset after a 416: t.lastOffset = 0
OnRangeNotSatisfiable(off) == 0

\* (a faulty variant: one byte is skipped whatever the status)
SkipBytesAlwaysOne(off, status) == IF off > 0 THEN 1 ELSE 0

\* (a faulty variant: a 200 skips one byte too few)
SkipBytesOneShort(off, status) ==
    IF off > 0
    THEN IF status = StatusPartialContent THEN 1 ELSE off - 1
    ELSE 0

\* var skipBytes: what the status and the offset make of it
SkipBytes(off, status) ==
    IF off > 0
    THEN IF status = StatusPartialContent THEN 1 ELSE off
    ELSE 0

\* (a faulty variant: the flag is never set)
RangeFlagNeverSet(off, status, rns) == rns

\* the flag after the status has been looked at
RangeFlag(off, status, rns) ==
    IF off > 0 /\ status # StatusPartialContent THEN TRUE ELSE rns

\* (a faulty variant: a 206 is taken whatever the offset)
PartialAlwaysTaken(off, status) == FALSE

\* "else if resp.StatusCode == http.StatusPartialContent" of the offset-0 arm:
\* a 206 nobody asked for
UnexpectedPartial(off, status) == off = 0 /\ status = StatusPartialContent

\* HttpTailer.FetchNewLines on response resp; fail names the step that fails
\* if the call gets to it ("build", "do", "body"), or None.  The result is
\* [lines, err, lastOffset, rangeNotSupported, warned, status, handed], where
\* handed is the bytes given to the splitting loop.
HttpFetchNewLines(off, rns, resp, fail) ==
    LET quit(e, o, r, w, st) ==
            [lines |-> <<>>, err |-> e, lastOffset |-> o, rangeNotSupported |-> r,
             warned |-> w, status |-> st, handed |-> <<>>]
        skipBytes == SkipBytes(off, resp.status)
        rns2 == RangeFlag(off, resp.status, rns)
        warned == off > 0 /\ resp.status # StatusPartialContent /\ ~rns
        body == Drop(resp.body, skipBytes)
        out == SplitLoop(body, <<>>, off)
    IN  IF fail = "build" THEN quit("request", off, rns, FALSE, 0)
        ELSE IF fail = "do" THEN quit("transport", off, rns, FALSE, 0)
        ELSE IF resp.status = StatusRequestedRangeNotSatisfiable
            THEN quit(None, OnRangeNotSatisfiable(off), rns, FALSE, resp.status)
        ELSE IF resp.status # StatusOK /\ resp.status # StatusPartialContent
            THEN quit("unexpected HTTP status", off, rns, FALSE, resp.status)
        ELSE IF UnexpectedPartial(off, resp.status)
            THEN quit("expected 200, got 206", off, rns, FALSE, resp.status)
        ELSE IF fail = "body" THEN quit("body", off, rns2, warned, resp.status)
        ELSE IF Len(resp.body) = 0 THEN quit(None, off, rns2, warned, resp.status)
        ELSE IF Len(resp.body) <= skipBytes THEN quit(None, off, rns2, warned, resp.status)
        ELSE [lines |-> out.lines, err |-> None, lastOffset |-> out.lastOffset,
              rangeNotSupported |-> rns2, warned |-> warned, status |-> resp.status,
              handed |-> body]

(* ------------------------------ SFTP ----------------------------------- *)
\* the offset after "if stat.Size() < t.lastOffset"
AfterStat(size, off) == IF size < off THEN 0 ELSE off

\* (a faulty variant: the handle is closed and kept)
HandleKept(handle) == handle

\* SftpTailer.disconnect: what a handle is afterwards (closed and nil)
Disconnect(handle) == FALSE

\* SftpTailer.FetchNewLines up to "if stat.Size() == t.lastOffset"; cl is
\* "t.client != nil", ssh is "t.sshClient != nil", size is what file.Stat()
\* answers, fail names the step that fails if the call gets to it ("connect",
\* "open", "stat"), or None.  connect and disconnect are folded in: connect
\* is called when cl is false (dialed) and sets both handles, a failure after
\* it disconnects.  returned: the call has returned; otherwise it goes on to
\* seek and read.
SftpOpenStat(off, cl, ssh, size, fail) ==
    LET at(ret, e, o, c, s) ==
            [returned |-> ret, err |-> e, lastOffset |-> o, client |-> c,
             sshClient |-> s, size |-> size, dialed |-> ~cl]
        cl2 == IF cl THEN cl ELSE TRUE
        ssh2 == IF cl THEN ssh ELSE TRUE
        off2 == AfterStat(size, off)
    IN  IF ~cl /\ fail = "connect" THEN at(TRUE, "failed to connect", off, cl, ssh)
        ELSE IF fail = "open"
            THEN at(TRUE, "failed to open", off, Disconnect(cl2), Disconnect(ssh2))
        ELSE IF fail = "stat"
            THEN at(TRUE, "failed to stat", off, Disconnect(cl2), Disconnect(ssh2))
        ELSE IF size = off2 THEN at(TRUE, None, off2, cl2, ssh2)
        ELSE at(FALSE, None, off2, cl2, ssh2)

\* SftpTailer.FetchNewLines from file.Seek on; off is t.lastOffset as the
\* first part left it, file is the remote file as io.ReadAll finds it, fail
\* is "seek", "read" or None.
SftpSeekRead(off, cl, ssh, file, fail) ==
    LET out == SplitLoop(Drop(file, off), <<>>, off)
    IN  IF fail = "seek"
            THEN [lines |-> <<>>, err |-> "failed to seek", lastOffset |-> off,
                  client |-> Disconnect(cl), sshClient |-> Disconnect(ssh)]
        ELSE IF fail = "read"
            THEN [lines |-> <<>>, err |-> "failed to read", lastOffset |-> off,
                  client |-> Disconnect(cl), sshClient |-> Disconnect(ssh)]
        ELSE [lines |-> out.lines, err |-> None, lastOffset |-> out.lastOffset,
              client |-> cl, sshClient |-> ssh]

(* ------------------------------ main ----------------------------------- *)
\* checkpoint files the process may find when it starts
CkptStart == {Absent, <<>>, <<"2", NL>>, <<"-", "2">>}

HttpBehaviours == {"range", "norange", "partial", "broken"}
HttpFails == {None, "build", "do", "body"}
SftpStatFails == {None, "connect", "open", "stat"}
SftpReadFails == {None, "seek", "read"}
SaveOutcomes == {"ok", "open", "write"}

\* the history kept of one turn of the loop
NoCycle ==
    [pollStart |-> 0, status |-> 0, size |-> 0, prevCarried |-> 0,
     handed |-> <<>>, warned |-> FALSE, saveErr |-> "notcalled", wrote |-> FALSE,
     fault |-> FALSE, observed |-> FALSE, dialed |-> FALSE, afterFailure |-> FALSE,
     afterSuccess |-> FALSE]

\* the history kept of the run
FreshRun ==
    [truncated |-> FALSE, loadFailed |-> FALSE, loaded |-> 0, polled |-> FALSE,
     printedAny |-> FALSE, ckptWritten |-> FALSE, carried |-> 0, warnings |-> 0,
     saw200 |-> FALSE, prevFailed |-> FALSE, prevOk |-> FALSE, restarts |-> 0,
     cy |-> NoCycle]

Init ==
    /\ remote = <<>>
    /\ transport \in {"http", "sftp"}
    /\ stateFilePath \in {"", "p"}
    /\ ckpt \in (IF stateFilePath = "" THEN {Absent} ELSE CkptStart)
    /\ lastOffset = 0
    /\ rangeNotSupported = FALSE
    /\ client = FALSE
    /\ sshClient = FALSE
    /\ pc = "start"
    /\ lines = <<>>
    /\ err = None
    /\ stdout = <<>>
    /\ gh = FreshRun

\* main: err = tailer.LoadState(); a failure is printed and main goes on
Load(readFails) ==
    /\ pc = "start"
    /\ LET r == LoadState(stateFilePath, ckpt, lastOffset, readFails)
       IN  /\ lastOffset' = r.lastOffset
           /\ gh' = [gh EXCEPT !.loadFailed = r.err # None, !.loaded = r.lastOffset]
    /\ pc' = "poll"
    /\ UNCHANGED <<remote, transport, stateFilePath, ckpt, rangeNotSupported,
                   client, sshClient, lines, err, stdout>>

\* where main is when the file's writer can be seen to act: between polls,
\* and inside the SFTP fetch between file.Stat and io.ReadAll
WriterActs == pc \in {"poll", "sftpread"}

\* the remote file grows by one byte
EnvAppend(c) ==
    /\ WriterActs
    /\ Len(remote) < MaxFileLen
    /\ remote' = Append(remote, c)
    /\ UNCHANGED <<transport, stateFilePath, ckpt, lastOffset, rangeNotSupported,
                   client, sshClient, pc, lines, err, stdout, gh>>

\* the remote file is truncated (rotated)
EnvTruncate ==
    /\ WriterActs
    /\ remote # <<>>
    /\ remote' = <<>>
    /\ stdout' = <<>>
    /\ gh' = [gh EXCEPT !.truncated = TRUE, !.carried = 0]
    /\ UNCHANGED <<transport, stateFilePath, ckpt, lastOffset, rangeNotSupported,
                   client, sshClient, pc, lines, err>>

\* unterminated bytes a poll left behind
Unconsumed(file, off) == IF off < Len(file) THEN Len(file) - off ELSE 0

\* main: lines, err := tailer.FetchNewLines(), the HTTP tailer
FetchHttp(behaviour, fail) ==
    /\ pc = "poll"
    /\ transport = "http"
    /\ behaviour = "partial" => lastOffset = 0
    /\ LET resp == HttpServer(remote, lastOffset, behaviour)
           r == HttpFetchNewLines(lastOffset, rangeNotSupported, resp, fail)
           got == fail \notin {"build", "do"}
       IN  /\ lastOffset' = r.lastOffset
           /\ rangeNotSupported' = r.rangeNotSupported
           /\ lines' = r.lines
           /\ err' = r.err
           /\ gh' = [gh EXCEPT !.polled = TRUE,
                               !.carried = IF r.err = None
                                           THEN Unconsumed(remote, r.lastOffset)
                                           ELSE gh.carried,
                               !.warnings = @ + (IF r.warned THEN 1 ELSE 0),
                               !.saw200 = @ \/ (got /\ lastOffset > 0
                                                /\ resp.status = StatusOK),
                               !.cy = [NoCycle EXCEPT !.pollStart = lastOffset,
                                                      !.status = r.status,
                                                      !.handed = r.handed,
                                                      !.warned = r.warned,
                                                      !.size = Len(remote),
                                                      !.fault = fail # None \/ behaviour
                                                                \in {"partial", "broken"},
                                                      !.observed = got /\ resp.status
                                                                \in {StatusOK, StatusPartialContent},
                                                      !.prevCarried = gh.carried]]
    /\ pc' = "fetched"
    /\ UNCHANGED <<remote, transport, stateFilePath, ckpt, client, sshClient, stdout>>

\* main: lines, err := tailer.FetchNewLines(), the SFTP tailer, up to the
\* answer of file.Stat
FetchSftpStat(fail) ==
    /\ pc = "poll"
    /\ transport = "sftp"
    /\ fail = "connect" => ~client
    /\ LET r == SftpOpenStat(lastOffset, client, sshClient, Len(remote), fail)
       IN  /\ lastOffset' = r.lastOffset
           /\ client' = r.client
           /\ sshClient' = r.sshClient
           /\ err' = r.err
           /\ pc' = IF r.returned THEN "fetched" ELSE "sftpread"
           /\ gh' = [gh EXCEPT !.polled = TRUE,
                               !.carried = IF r.returned /\ r.err = None
                                           THEN Unconsumed(remote, r.lastOffset)
                                           ELSE gh.carried,
                               !.prevFailed = IF r.returned THEN r.err # None
                                              ELSE gh.prevFailed,
                               !.prevOk = IF r.returned THEN r.err = None
                                          ELSE gh.prevOk,
                               !.cy = [NoCycle EXCEPT !.pollStart = lastOffset,
                                                      !.size = r.size,
                                                      !.fault = fail # None,
                                                      !.observed = fail = None,
                                                      !.dialed = r.dialed,
                                                      !.afterFailure = gh.prevFailed,
                                                      !.afterSuccess = gh.prevOk,
                                                      !.prevCarried = gh.carried]]
    /\ UNCHANGED <<remote, transport, stateFilePath, ckpt, rangeNotSupported,
                   lines, stdout>>

\* the rest of that call: file.Seek, io.ReadAll, the splitting into lines
FetchSftpRead(fail) ==
    /\ pc = "sftpread"
    /\ LET r == SftpSeekRead(lastOffset, client, sshClient, remote, fail)
       IN  /\ lastOffset' = r.lastOffset
           /\ client' = r.client
           /\ sshClient' = r.sshClient
           /\ lines' = r.lines
           /\ err' = r.err
           /\ gh' = [gh EXCEPT !.carried = IF r.err = None
                                           THEN Unconsumed(remote, r.lastOffset)
                                           ELSE gh.carried,
                               !.prevFailed = r.err # None,
                               !.prevOk = r.err = None,
                               !.cy.fault = fail # None]
    /\ pc' = "fetched"
    /\ UNCHANGED <<remote, transport, stateFilePath, ckpt, rangeNotSupported, stdout>>

\* (a faulty variant: a failed fetch ends the process)
LogFetchErrorFatal ==
    /\ pc = "fetched"
    /\ err # None
    /\ pc' = "exited"
    /\ UNCHANGED <<remote, transport, stateFilePath, ckpt, lastOffset,
                   rangeNotSupported, client, sshClient, lines, err, stdout, gh>>

\* main: if err != nil { print "Error fetching file" }
LogFetchError ==
    /\ pc = "fetched"
    /\ err # None
    /\ pc' = "sleep"
    /\ UNCHANGED <<remote, transport, stateFilePath, ckpt, lastOffset,
                   rangeNotSupported, client, sshClient, lines, err, stdout, gh>>

\* main: else { err := tailer.SaveState(); a failure is printed
Save(outcome) ==
    /\ pc = "fetched"
    /\ err = None
    /\ stateFilePath = "" => outcome = "ok"
    /\ LET r == SaveState(stateFilePath, lastOffset, ckpt, outcome)
       IN  /\ ckpt' = r.file
           /\ gh' = [gh EXCEPT !.cy.saveErr = r.err,
                               !.cy.wrote = stateFilePath # "" /\ outcome # "open",
                               !.ckptWritten = @ \/ (stateFilePath # "" /\ outcome # "open")]
    /\ pc' = "print"
    /\ UNCHANGED <<remote, transport, stateFilePath, lastOffset, rangeNotSupported,
                   client, sshClient, lines, err, stdout>>

\* main: for _, line := range lines { fmt.Println(line) }, one line
PrintLine ==
    /\ pc = "print"
    /\ lines # <<>>
    /\ stdout' = Append(stdout, Head(lines))
    /\ lines' = Tail(lines)
    /\ gh' = [gh EXCEPT !.printedAny = TRUE]
    /\ UNCHANGED <<remote, transport, stateFilePath, ckpt, lastOffset,
                   rangeNotSupported, client, sshClient, pc, err>>

\* main: the range loop is over
PrintDone ==
    /\ pc = "print"
    /\ lines = <<>>
    /\ pc' = "sleep"
    /\ UNCHANGED <<remote, transport, stateFilePath, ckpt, lastOffset,
                   rangeNotSupported, client, sshClient, lines, err, stdout, gh>>

\* main: time.Sleep(intervalSec), then the next turn of the loop; lines and
\* err are variables of the loop body and end with it
Sleep ==
    /\ pc = "sleep"
    /\ pc' = "poll"
    /\ lines' = <<>>
    /\ err' = None
    /\ gh' = [gh EXCEPT !.cy = NoCycle]
    /\ UNCHANGED <<remote, transport, stateFilePath, ckpt, lastOffset,
                   rangeNotSupported, client, sshClient, stdout>>

Next ==
    \/ \E b \in BOOLEAN : Load(b)
    \/ \E c \in FileBytes : EnvAppend(c)
    \/ EnvTruncate
    \/ \E b \in HttpBehaviours, f \in HttpFails : FetchHttp(b, f)
    \/ \E f \in SftpStatFails : FetchSftpStat(f)
    \/ \E f \in SftpReadFails : FetchSftpRead(f)
    \/ LogFetchError
    \/ \E o \in SaveOutcomes : Save(o)
    \/ PrintLine
    \/ PrintDone
    \/ Sleep

Spec == Init /\ [][Next]_vars

(* ----------------------- the checkpoint store alone -------------------- *)
\* the steps of main (the file's writer is not among them)
MainStep ==
    \/ \E readFails \in BOOLEAN : Load(readFails)
    \/ \E b \in HttpBehaviours, f \in HttpFails : FetchHttp(b, f)
    \/ \E f \in SftpStatFails : FetchSftpStat(f)
    \/ \E f \in SftpReadFails : FetchSftpRead(f)
    \/ LogFetchError
    \/ \E o \in SaveOutcomes : Save(o)
    \/ PrintLine
    \/ PrintDone
    \/ Sleep

\* the writer of the file, keeping it within MaxLiveLen bytes
LiveEnv ==
    \/ \E c \in FileBytes : Len(remote) < MaxLiveLen /\ EnvAppend(c)
    \/ EnvTruncate

LiveNext == MainStep \/ LiveEnv

\* SpecLive: main is not held up for ever: a call that is pending returns and
\* time.Sleep ends.  Nothing is assumed of the file's writer.
SpecLive == Init /\ [][LiveNext]_vars /\ WF_vars(MainStep)

\* SpecRestart: the tail loop on an append-only file with a checkpoint path,
\* reads and writes of the checkpoint that fail on no error of their own,
\* and a process that may be terminated anywhere in the loop, the inside of
\* SaveState included, and started again.
InitRestart ==
    /\ Init
    /\ stateFilePath = "p"
    /\ ckpt = Absent

\* where in main a termination can fall: between two of its steps, or
\* inside SaveState after os.WriteFile has opened the file with O_TRUNC and
\* before it has written
KillPoints == {"between", "inwrite"}

\* the checkpoint file a termination at that point leaves
CkptAfterKill(point) ==
    IF point = "inwrite"
    THEN SaveState(stateFilePath, lastOffset, ckpt, "write").file
    ELSE ckpt

\* The process is terminated and started again with the same arguments: the
\* tailer is built anew (NewHttpTailer, NewSftpTailer), what was printed
\* stays, the checkpoint file is as the termination left it.
Restart(point) ==
    /\ pc # "start"
    /\ gh.restarts < MaxRestarts
    /\ point = "inwrite" => (pc = "fetched" /\ err = None)
    /\ ckpt' = CkptAfterKill(point)
    /\ lastOffset' = 0
    /\ rangeNotSupported' = FALSE
    /\ client' = FALSE
    /\ sshClient' = FALSE
    /\ lines' = <<>>
    /\ err' = None
    /\ pc' = "start"
    /\ gh' = [FreshRun EXCEPT !.restarts = gh.restarts + 1]
    /\ UNCHANGED <<remote, transport, stateFilePath, stdout>>

NextRestart ==
    \/ Load(FALSE)
    \/ \E c \in FileBytes : EnvAppend(c)
    \/ \E b \in HttpBehaviours, f \in HttpFails : FetchHttp(b, f)
    \/ \E f \in SftpStatFails : FetchSftpStat(f)
    \/ \E f \in SftpReadFails : FetchSftpRead(f)
    \/ LogFetchError
    \/ Save("ok")
    \/ PrintLine
    \/ PrintDone
    \/ Sleep
    \/ \E k \in KillPoints : Restart(k)

SpecRestart == InitRestart /\ [][NextRestart]_vars

\* LoadState and SaveState applied to any offset and any checkpoint text.
\* Here gh records the last call: op, the file and offset it found, the
\* offset of the last SaveState whose write succeeded (-1: none).
CkptInit ==
    /\ remote = <<>>
    /\ transport = "http"
    /\ stateFilePath \in {"", "p"}
    /\ ckpt \in (IF stateFilePath = "" THEN {Absent}
                 ELSE {Absent} \cup SeqsUpTo(CkptBytes, MaxCkptLen))
    /\ lastOffset \in 0..MaxCkptOffset
    /\ rangeNotSupported = FALSE
    /\ client = FALSE
    /\ sshClient = FALSE
    /\ pc = "store"
    /\ lines = <<>>
    /\ err = None
    /\ stdout = <<>>
    /\ gh = [op |-> "none", src |-> ckpt, before |-> lastOffset, saved |-> -1,
             readFails |-> FALSE]

CkptSave(outcome) ==
    /\ pc = "store"
    /\ gh.op # "save"
    /\ stateFilePath = "" => outcome = "ok"
    /\ LET r == SaveState(stateFilePath, lastOffset, ckpt, outcome)
       IN  /\ ckpt' = r.file
           /\ err' = r.err
           /\ gh' = [op |-> "save", src |-> ckpt, before |-> lastOffset,
                     saved |-> IF stateFilePath # "" /\ r.err = None
                               THEN lastOffset ELSE -1,
                     readFails |-> FALSE]
    /\ UNCHANGED <<remote, transport, stateFilePath, lastOffset, rangeNotSupported,
                   client, sshClient, pc, lines, stdout>>

CkptLoad(readFails) ==
    /\ pc = "store"
    /\ gh.op # "load"
    /\ LET r == LoadState(stateFilePath, ckpt, lastOffset, readFails)
       IN  /\ lastOffset' = r.lastOffset
           /\ err' = r.err
           /\ gh' = [op |-> "load", src |-> ckpt, before |-> lastOffset,
                     saved |-> gh.saved, readFails |-> readFails]
    /\ UNCHANGED <<remote, transport, stateFilePath, ckpt, rangeNotSupported,
                   client, sshClient, pc, lines, stdout>>

\* a new process: NewHttpTailer, NewSftpTailer set lastOffset: 0
CkptNewTailer ==
    /\ pc = "store"
    /\ gh.op = "save"
    /\ lastOffset' = 0
    /\ err' = None
    /\ gh' = [gh EXCEPT !.op = "new"]
    /\ UNCHANGED <<remote, transport, stateFilePath, ckpt, rangeNotSupported,
                   client, sshClient, pc, lines, stdout>>

CkptNext ==
    \/ \E o \in SaveOutcomes : CkptSave(o)
    \/ \E b \in BOOLEAN : CkptLoad(b)
    \/ CkptNewTailer

CkptSpec == CkptInit /\ [][CkptNext]_vars

(* ======================= properties of the tail loop =================== *)
\* positions of the newline bytes of s
NlPositions(s) == {i \in 1..Len(s) : s[i] = NL}

\* position of the last newline of s, 0 if it has none
LastNl(s) ==
    IF NlPositions(s) = {} THEN 0
    ELSE CHOOSE p \in NlPositions(s) : \A q \in NlPositions(s) : q <= p

\* position of the k-th newline of s
KthNl(s, k) ==
    CHOOSE p \in NlPositions(s) : Cardinality({q \in NlPositions(s) : q <= p}) = k

\* the newline-terminated lines of s, in order, newlines left out
TerminatedLines(s) ==
    [k \in 1..Cardinality(NlPositions(s)) |->
        SubSeq(s, (IF k = 1 THEN 0 ELSE KthNl(s, k - 1)) + 1, KthNl(s, k) - 1)]

\* the run began at offset 0 and the remote file has only been appended to
AppendOnlyFromZero == ~gh.truncated /\ gh.loaded = 0

\* C1: on an append-only file, a successful poll (either transport) returns
\* exactly the lines whose newline it saw, whole, counted from the offset the
\* poll began at, and moves the offset just past the last newline it saw: a
\* poll that saw only bytes without a newline returns nothing and leaves the
\* offset where it was, so a line begun in one poll is returned once, whole
\* (bytes seen earlier included), by the poll that sees its newline.
C1_SplitLineEmittedOnceComplete ==
    (AppendOnlyFromZero /\ pc = "fetched" /\ err = None) =>
        LET start == gh.cy.pollStart
            tail == Drop(remote, start)
        IN  /\ start <= Len(remote)
            /\ lines = TerminatedLines(tail)
            /\ lastOffset = start + LastNl(tail)
            /\ NlPositions(tail) = {} => (lines = <<>> /\ lastOffset = start)
            /\ (gh.cy.prevCarried > 0 /\ lines # <<>>) =>
                   /\ Len(lines[1]) >= gh.cy.prevCarried
                   /\ lines[1] = SubSeq(remote, start + 1, start + Len(lines[1]))

\* a poll returns a line of which an earlier successful poll had seen only
\* the beginning
C1_Witness ==
    /\ AppendOnlyFromZero
    /\ pc = "fetched"
    /\ err = None
    /\ gh.cy.prevCarried > 0
    /\ lines # <<>>
    /\ Len(lines[1]) > gh.cy.prevCarried

\* C2: on an append-only file read from offset 0, whatever polls succeeded or
\* failed, the lines printed so far followed by the lines fetched and not yet
\* printed are the newline-terminated lines of the file's first lastOffset
\* bytes, in file order (between polls: the printed lines alone).
C2_EmittedLinesArePrefixLines ==
    AppendOnlyFromZero =>
        /\ lastOffset <= Len(remote)
        /\ stdout \o lines = TerminatedLines(Take(remote, lastOffset))
        /\ pc \in {"poll", "sleep"} =>
               stdout = TerminatedLines(Take(remote, lastOffset))

\* two lines printed over several polls, one of them failed, an unterminated
\* tail left in the file
C2_Witness ==
    /\ AppendOnlyFromZero
    /\ pc = "sleep"
    /\ err # None
    /\ Len(stdout) >= 2
    /\ stdout[1] # stdout[2]
    /\ lastOffset < Len(remote)

\* C3: SFTP, the stat reports a size below the stored offset and the file is
\* not empty: the poll returns no line and leaves offset 0.
C3_SftpTruncationSkipsRead ==
    (transport = "sftp" /\ pc = "fetched" /\ err = None
        /\ gh.cy.size < gh.cy.pollStart /\ gh.cy.size > 0) =>
        (lines = <<>> /\ lastOffset = 0)

\* C4: HTTP, a 416 answer: the offset is 0, no line is returned, no error,
\* SaveState is called in that turn of the loop and, with a checkpoint path
\* and a write that succeeds, the checkpoint file reads "0\n" before the
\* next poll.
C4_Http416ResetsAndPersists ==
    (transport = "http" /\ gh.cy.status = StatusRequestedRangeNotSatisfiable) =>
        /\ lastOffset = 0
        /\ lines = <<>>
        /\ err = None
        /\ pc \in {"print", "sleep"} =>
               /\ gh.cy.saveErr # "notcalled"
               /\ (stateFilePath # "" /\ gh.cy.saveErr = None) => ckpt = <<"0", NL>>

\* a 416 met at an offset above 0, the turn over, "0\n" in the checkpoint
C4_Witness ==
    /\ transport = "http"
    /\ gh.cy.status = StatusRequestedRangeNotSatisfiable
    /\ gh.cy.pollStart > 0
    /\ pc = "sleep"
    /\ ckpt = <<"0", NL>>

\* C5: a poll that returns an error leaves the offset where it was, returns
\* no line and the checkpoint file is not written in that turn of the loop.
C5_FailedPollChangesNothing ==
    (pc \in {"fetched", "sleep"} /\ err # None) =>
        /\ lastOffset = gh.cy.pollStart
        /\ lines = <<>>
        /\ ~gh.cy.wrote

\* C6: HTTP, offset > 0, file at least as long as the offset: with a 206
\* (from byte offset-1) and with a 200 (whole file) alike, the bytes given to
\* the splitting loop are the file from byte offset on, so the lines and the
\* new offset are the same function of file and offset for both answers.
C6_RangeAndFullBodyAgree ==
    (transport = "http" /\ pc = "fetched" /\ err = None
        /\ gh.cy.pollStart > 0 /\ gh.cy.pollStart <= gh.cy.size) =>
        LET rest == Drop(remote, gh.cy.pollStart)
        IN  /\ gh.cy.status \in {StatusOK, StatusPartialContent}
            /\ gh.cy.handed = rest
            /\ lines = TerminatedLines(rest)
            /\ lastOffset = gh.cy.pollStart + LastNl(rest)

\* a 200 at an offset above 0 that yields a line
C6_Witness ==
    /\ transport = "http"
    /\ pc = "fetched"
    /\ err = None
    /\ gh.cy.status = StatusOK
    /\ gh.cy.pollStart > 0
    /\ gh.cy.handed # <<>>
    /\ lines # <<>>

\* C7: the reader has warned "server doesn't support range requests" once if
\* some poll of it at an offset above 0 got a 200, and never otherwise: no
\* second warning, whatever happened in between.
C7_RangeWarningOnce ==
    /\ gh.warnings <= 1
    /\ gh.warnings = 1 <=> gh.saw200
    /\ gh.warnings = 1 <=> rangeNotSupported

\* a later 200 at an offset above 0, after a truncation, that does not warn
C7_Witness ==
    /\ transport = "http"
    /\ gh.truncated
    /\ gh.warnings = 1
    /\ pc = "fetched"
    /\ gh.cy.status = StatusOK
    /\ gh.cy.pollStart > 0
    /\ ~gh.cy.warned

\* C10: after a failed LoadState at start the process does nothing more: no
\* fetch, no line printed, no write of the checkpoint file.
C10_FailedLoadAborts ==
    gh.loadFailed => (~gh.polled /\ ~gh.printedAny /\ ~gh.ckptWritten)

\* this turn of the loop has fetched
InCycle == pc \in {"fetched", "print", "sleep"}

\* C11: the file is as long as the stored offset (0 included), nothing fails
\* and the server answers as a server does (200, or 206/416 to a Range): the
\* poll returns no line and no error, the offset stays, and no truncation is
\* signalled (no 416, no reset to 0).
C11_SteadyStatePollIsIdle ==
    (pc = "fetched" /\ gh.cy.size = gh.cy.pollStart /\ ~gh.cy.fault) =>
        /\ err = None
        /\ lines = <<>>
        /\ lastOffset = gh.cy.pollStart
        /\ gh.cy.status # StatusRequestedRangeNotSatisfiable
        /\ gh.cy.handed = <<>>

\* a 200 with the whole file, as long as the offset, which ends in a newline
C11_Witness ==
    /\ pc = "fetched"
    /\ transport = "http"
    /\ gh.cy.status = StatusOK
    /\ gh.cy.pollStart > 0
    /\ gh.cy.size = gh.cy.pollStart
    /\ remote[gh.cy.size] = NL
    /\ ~gh.cy.fault
    /\ lastOffset = gh.cy.pollStart

\* C13: HTTP, a 200 whose body is shorter than the stored offset: the poll
\* returns no line and the offset persisted after it is 0.
C13_Http200ShrunkResets ==
    (transport = "http" /\ InCycle /\ err = None /\ gh.cy.status = StatusOK
        /\ gh.cy.size < gh.cy.pollStart) =>
        /\ lines = <<>>
        /\ lastOffset = 0
        /\ (pc \in {"print", "sleep"} /\ stateFilePath # "" /\ gh.cy.saveErr = None) =>
               ckpt = <<"0", NL>>

\* C15: after a poll that learnt the size of the file, 0 <= lastOffset and
\* lastOffset is at most that size.  (The offset and the size last learnt
\* change only in a poll, so the states between polls add nothing.)
C15_OffsetWithinObservedSize ==
    (InCycle /\ gh.cy.observed) => (0 <= lastOffset /\ lastOffset <= gh.cy.size)

\* C16: SFTP: after a FetchNewLines that returned an error client and
\* sshClient are both nil, after one that returned none both are set; the
\* call after a failed one dials, the call after a successful one does not.
C16_SftpSessionLifecycle ==
    transport = "sftp" =>
        /\ client <=> sshClient
        /\ (InCycle /\ err # None) => (~client /\ ~sshClient)
        /\ (InCycle /\ err = None) => (client /\ sshClient)
        /\ (InCycle /\ gh.cy.afterFailure) => gh.cy.dialed
        /\ (InCycle /\ gh.cy.afterSuccess) => ~gh.cy.dialed

\* a read failed on an established session, the session is gone
C16_Witness ==
    /\ transport = "sftp"
    /\ pc = "sleep"
    /\ err = "failed to read"
    /\ gh.cy.afterSuccess
    /\ ~gh.cy.dialed
    /\ ~client

\* C17: HTTP, a 206 while the stored offset is 0: the poll returns an error
\* and no line, the offset stays 0, SaveState is not called.
C17_PartialAtOffsetZeroFails ==
    (transport = "http" /\ InCycle /\ gh.cy.status = StatusPartialContent
        /\ gh.cy.pollStart = 0) =>
        /\ err # None
        /\ lines = <<>>
        /\ lastOffset = 0
        /\ pc # "print"
        /\ gh.cy.saveErr = "notcalled"
        /\ ~gh.cy.wrote

\* a 206 at offset 0 for a file that holds a whole line, the turn over
C17_Witness ==
    /\ transport = "http"
    /\ pc = "sleep"
    /\ gh.cy.status = StatusPartialContent
    /\ gh.cy.pollStart = 0
    /\ NlPositions(remote) # {}
    /\ err = "expected 200, got 206"

\* C19: from offset 0 on an append-only file the offset is 0 or the position
\* just after a newline of the file.
C19_OffsetOnLineBoundary ==
    AppendOnlyFromZero =>
        \/ lastOffset = 0
        \/ (lastOffset \in 1..Len(remote) /\ remote[lastOffset] = NL)

\* the offset after a second line, bytes without newline behind it, reached
\* by a poll that began above 0
C19_Witness ==
    /\ AppendOnlyFromZero
    /\ pc = "fetched"
    /\ gh.cy.pollStart > 0
    /\ lastOffset > gh.cy.pollStart
    /\ lastOffset < Len(remote)
    /\ remote[lastOffset] = NL

\* C12: after a termination and a restart the lines printed by
\* the two runs are, between polls, exactly the terminated lines of the
\* file's first lastOffset bytes: none twice, none lost.
C12_ExactlyOnceAcrossRestart ==
    (gh.restarts > 0 /\ pc \in {"poll", "sleep"}) =>
        stdout = TerminatedLines(Take(remote, lastOffset))

\* C14: on an append-only file, once the checkpoint has been
\* written in a turn of the loop no line of that turn is still to be printed.
C14_EmitBeforePersist ==
    (AppendOnlyFromZero /\ gh.cy.wrote /\ gh.cy.saveErr = None) => lines = <<>>

\* C18: once LoadState has returned, whatever a poll yields (lines, nothing,
\* a truncation, a transport or status error, a failed SaveState) main comes
\* back to the point between polls, and from there starts another fetch.
C18_LoopNeverTerminates ==
    /\ InCycle ~> (pc = "poll")
    /\ (pc = "poll") ~> (pc = "fetched")

\* main is asleep after a failed fetch, having printed lines and met a
\* truncation and a failed SaveState earlier in the run
C18_Witness ==
    /\ pc = "sleep"
    /\ err # None
    /\ gh.printedAny
    /\ gh.truncated
    /\ gh.ckptWritten
    /\ ckpt = <<>>

(* ==================== properties of the checkpoint store =============== *)
\* one non-negative base-10 integer, optionally followed by one newline
Canonical(text) ==
    LET num == IF text # <<>> /\ text[Len(text)] = NL
               THEN Take(text, Len(text) - 1) ELSE text
    IN  num # <<>> /\ \A i \in 1..Len(num) : num[i] \in DigitSet

\* C8: LoadState after a SaveState that wrote (path not empty) installs the
\* offset that was saved; LoadState on a path with no file installs 0
\* without error; with an empty path LoadState installs 0 without error and
\* SaveState leaves the file system alone.
C8_CheckpointRoundTrip ==
    /\ (gh.op = "load" /\ gh.saved >= 0 /\ ~gh.readFails) =>
           (err = None /\ lastOffset = gh.saved)
    /\ (gh.op = "load" /\ stateFilePath # "" /\ gh.src = Absent) =>
           (err = None /\ lastOffset = 0)
    /\ (gh.op = "load" /\ stateFilePath = "") => (err = None /\ lastOffset = 0)
    /\ (gh.op = "save" /\ stateFilePath = "") => (err = None /\ ckpt = gh.src)

\* an offset of three digits saved, forgotten by a new tailer, loaded back
C8_Witness ==
    /\ gh.op = "load"
    /\ gh.saved >= 100
    /\ gh.before = 0
    /\ lastOffset = gh.saved
    /\ ckpt = <<"1", "0", "7", NL>>

\* C9: LoadState on an existing file whose text is not one non-negative
\* base-10 integer optionally followed by one newline fails and leaves the
\* offset as it was.
C9_NonCanonicalCheckpointRejected ==
    (gh.op = "load" /\ stateFilePath # "" /\ gh.src # Absent /\ ~Canonical(gh.src)) =>
        (err # None /\ lastOffset = gh.before)
====
